---- MODULE Spec2Model ----
(***************************************************************************)
(* Storage console front-end (applications/services/storage/storage_cli.c) *)
(* as a state machine: the dispatcher storage_cli, its sixteen handlers     *)
(* and the factory_reset command.  The storage service and the console are  *)
(* external collaborators: every result they return is a nondeterministic   *)
(* choice from a small set.                                                 *)
(***************************************************************************)
EXTENDS Integers, Sequences, FiniteSets, TLC

VARIABLES
    pc,          \* position of the session: "idle", a handler, a loop, "done"
    command,     \* console command that is running: "storage", "factory_reset"
    line,        \* the argument line the console handed to storage_cli
    cmd,         \* verb token of the current command line
    path,        \* path token of the current command line
    args,        \* what is left of the line after the two tokens
    trace,       \* calls made and text printed by the current command, in order
    disk,        \* content of the file the current handler has open
    disk0,       \* content of that file when it was opened
    fpos,        \* read position of the open file
    ferr,        \* last error recorded in the file handle
    recOpen,     \* open count of the storage record
    handles,     \* number of open file / directory handles
    buffer,      \* the handler's malloc'ed transfer buffer
    read_index,  \* storage_cli_write: symbols stored so far
    buffer_size, \* read_chunks / write_chunk: parsed chunk size
    file_size,   \* read_chunks: remaining byte counter
    nGetc,       \* console symbols / storage reads taken by the current loop
    faults,      \* storage calls that failed during the current command
    rtcFlag,     \* FuriHalRtcFlagFactoryReset is set
    rebooted,    \* power_reboot has been issued
    tree,        \* storage tree the copy / rename / migrate primitive works on
    tree0,       \* that tree when the primitive was called
    observed     \* the calls and the output of the session are being recorded

vars == <<pc, command, line, cmd, path, args, trace, disk, disk0, fpos, ferr, recOpen, handles,
          buffer, read_index, buffer_size, file_size, nGetc, faults,
          rtcFlag, rebooted, tree, tree0, observed>>

(***************************************************************************)
(* Bounds of the model                                                     *)
(***************************************************************************)
\* console symbols one write-until-cancel session may take
MaxSymbols == 516
\* handshake-gated reads one read_chunks command may make
MaxChunkReads == 6
\* storage calls that may fail during one command
MaxFaults == 2

(***************************************************************************)
(* Program constants                                                       *)
(***************************************************************************)
CliSymbolAsciiETX == 3
WRITE_BUFFER_SIZE == 512
READ_BUFFER_SIZE == 128
\* a uint64_t value hi * 2^32 + lo, kept as its two 32-bit halves
U64Val(hi, lo) == [hi |-> hi, lo |-> lo]
\* the cast (uint32_t)v of a uint64_t v keeps the low half
uint32_t(v) == v.lo

FSE_OK == "FSE_OK"
FSE_NOT_IMPLEMENTED == "FSE_NOT_IMPLEMENTED"
\* failure reasons the storage service hands back
OpenErrors == {"FSE_NOT_EXIST", "FSE_DENIED"}
IoErrors == {"FSE_INTERNAL"}

STORAGE_INT_PATH_PREFIX == <<"/", "i", "n", "t">>
STORAGE_EXT_PATH_PREFIX == <<"/", "e", "x", "t">>
STORAGE_ANY_PATH_PREFIX == <<"/", "a", "n", "y">>
ROOT_PATH == <<"/">>

(***************************************************************************)
(* Small helpers                                                           *)
(***************************************************************************)
Min(S) == CHOOSE x \in S : \A y \in S : x <= y
Max(S) == CHOOSE x \in S : \A y \in S : x >= y
Ev(tag, val) == <<tag, val>>
Tags(tr) == {tr[i][1] : i \in 1..Len(tr)}
Count(tr, tag) == Cardinality({i \in 1..Len(tr) : tr[i][1] = tag})
Vals(tr, tag) ==
    LET sel == SelectSeq(tr, LAMBDA e : e[1] = tag)
    IN  [i \in 1..Len(sel) |-> sel[i][2]]
Positions(tr, tag) == {i \in 1..Len(tr) : tr[i][1] = tag}
\* byte i of a file, of raw console data
Byte(i) == (37 * i + 11) % 256
\* symbol i of the text typed on the console (never the cancel symbol)
Text(i) == 32 + (i % 95)

(***************************************************************************)
(* Argument parsing (lib/toolbox/args.c, sscanf)                           *)
(***************************************************************************)
TrimSpaces(s) ==
    LET idx == {i \in 1..Len(s) : s[i] # " "}
    IN  IF idx = {} THEN <<>> ELSE SubSeq(s, Min(idx), Max(idx))

args_get_first_word_length(s) ==
    LET sp == {i \in 1..Len(s) : s[i] = " "}
    IN  IF sp = {} THEN Len(s) ELSE Min(sp) - 1

args_read_string_and_trim(a) ==
    LET n == args_get_first_word_length(a)
    IN  IF n = 0
        THEN [ok |-> FALSE, word |-> <<>>, rest |-> a]
        ELSE [ok |-> TRUE, word |-> SubSeq(a, 1, n),
              rest |-> TrimSpaces(SubSeq(a, n + 1, Len(a)))]

args_read_probably_quoted_string_and_trim(a) ==
    IF Len(a) > 1 /\ a[1] = "\""
    THEN LET q == {i \in 2..Len(a) : a[i] = "\""}
         IN  IF q = {}
             THEN [ok |-> FALSE, word |-> <<>>, rest |-> a]
             ELSE [ok |-> TRUE, word |-> SubSeq(a, 2, Min(q) - 1),
                   rest |-> TrimSpaces(SubSeq(a, Min(q) + 1, Len(a)))]
    ELSE args_read_string_and_trim(a)

Digits == <<"0", "1", "2", "3", "4", "5", "6", "7", "8", "9">>
IsDigit(c) == \E d \in 1..10 : Digits[d] = c
DigitVal(c) == (CHOOSE d \in 1..10 : Digits[d] = c) - 1

RECURSIVE Decimal(_)
Decimal(s) ==
    IF s = <<>> THEN 0
    ELSE 10 * Decimal(SubSeq(s, 1, Len(s) - 1)) + DigitVal(s[Len(s)])

\* sscanf(str, "%lu", &v): leading white space skipped, an optional sign, then
\* the longest run of digits; the count is -1 (EOF) on empty input, 0 when no
\* digit is found, 1 otherwise.  A '-' sign negates the value modulo 2^32; it
\* is kept here as the negated magnitude (SizeArgs holds no such input).
sscanf_lu(str) ==
    LET lead == {i \in 1..Len(str) : str[i] # " "}
        s    == IF lead = {} THEN <<>> ELSE SubSeq(str, Min(lead), Len(str))
        sign == Len(s) > 0 /\ s[1] \in {"+", "-"}
        body == IF sign THEN SubSeq(s, 2, Len(s)) ELSE s
        stop == {i \in 1..Len(body) : ~IsDigit(body[i])}
        nd   == IF stop = {} THEN Len(body) ELSE Min(stop) - 1
        mag  == Decimal(SubSeq(body, 1, nd))
    IN  IF s = <<>> THEN [count |-> -1, value |-> 0]
        ELSE IF nd = 0 THEN [count |-> 0, value |-> 0]
        ELSE [count |-> 1,
              value |-> IF sign /\ s[1] = "-" THEN 0 - mag ELSE mag]

(***************************************************************************)
(* Verbs and input lines                                                   *)
(***************************************************************************)
V_info == <<"i", "n", "f", "o">>
V_format == <<"f", "o", "r", "m", "a", "t">>
V_list == <<"l", "i", "s", "t">>
V_tree == <<"t", "r", "e", "e">>
V_read == <<"r", "e", "a", "d">>
V_read_chunks == V_read \o <<"_", "c", "h", "u", "n", "k", "s">>
V_write == <<"w", "r", "i", "t", "e">>
V_write_chunk == V_write \o <<"_", "c", "h", "u", "n", "k">>
V_copy == <<"c", "o", "p", "y">>
V_remove == <<"r", "e", "m", "o", "v", "e">>
V_rename == <<"r", "e", "n", "a", "m", "e">>
V_migrate == <<"m", "i", "g", "r", "a", "t", "e">>
V_mkdir == <<"m", "k", "d", "i", "r">>
V_md5 == <<"m", "d", "5">>
V_stat == <<"s", "t", "a", "t">>
V_timestamp == <<"t", "i", "m", "e", "s", "t", "a", "m", "p">>

\* the if-chain of storage_cli, in source order
VerbTable ==
    << <<V_info, "storage_cli_info">>,
       <<V_format, "storage_cli_format">>,
       <<V_list, "storage_cli_list">>,
       <<V_tree, "storage_cli_tree">>,
       <<V_read, "storage_cli_read">>,
       <<V_read_chunks, "storage_cli_read_chunks">>,
       <<V_write, "storage_cli_write">>,
       <<V_write_chunk, "storage_cli_write_chunk">>,
       <<V_copy, "storage_cli_copy">>,
       <<V_remove, "storage_cli_remove">>,
       <<V_rename, "storage_cli_rename">>,
       <<V_migrate, "storage_cli_migrate">>,
       <<V_mkdir, "storage_cli_mkdir">>,
       <<V_md5, "storage_cli_md5">>,
       <<V_stat, "storage_cli_stat">>,
       <<V_timestamp, "storage_cli_timestamp">> >>

\* variant: the verb is compared over its own length only (a strncmp)
VerbMatches_prefix(c, verb) ==
    Len(c) >= Len(verb) /\ SubSeq(c, 1, Len(verb)) = verb
\* variant: the verb is compared over the length of the token only
VerbMatches_within(c, verb) ==
    Len(verb) >= Len(c) /\ SubSeq(verb, 1, Len(c)) = c
\* furi_string_cmp_str(cmd, verb) == 0
VerbMatches(c, verb) == c = verb

\* the handler the if-chain reaches for a verb token, "none" when it falls through
HandlerFor(c) ==
    LET hit == {i \in 1..Len(VerbTable) : VerbMatches(c, VerbTable[i][1])}
    IN  IF hit = {} THEN "none" ELSE VerbTable[Min(hit)][2]

SP == <<" ">>
P_file == STORAGE_EXT_PATH_PREFIX \o <<"/", "f">>
P_dest == STORAGE_EXT_PATH_PREFIX \o <<"/", "g">>
P_foo == STORAGE_EXT_PATH_PREFIX \o <<"/", "f", "o", "o">>
P_dfoo == STORAGE_EXT_PATH_PREFIX \o <<"/", "d", "/", "f", "o", "o">>
P_quoted == <<"\"">> \o STORAGE_EXT_PATH_PREFIX \o <<"/", "a", " ", "b", "\"">>
P_unclosed == <<"\"">> \o STORAGE_EXT_PATH_PREFIX \o <<"/", "a">>

\* trailing arguments tried with read_chunks and write_chunk
SizeArgs ==
    { <<>>, <<"x">>, <<"-">>, <<"0">>, <<"1">>, <<"2">>, <<"3">>,
      <<"3", "x">>, <<"+", "2">>, <<"1", "2", "8">> }

AllVerbs == {VerbTable[i][1] : i \in 1..Len(VerbTable)}

\* the command lines the console session is fed
Lines ==
    { <<>>, V_info, V_read \o SP, <<"f", "o", "o", "b", "a", "r">> \o SP \o STORAGE_EXT_PATH_PREFIX,
      V_read \o <<"_", "c", "h", "u", "n", "k">> \o SP \o P_file \o SP \o <<"2">>,
      V_write \o <<"s">> \o SP \o P_file,
      <<"R", "e", "a", "d">> \o SP \o P_file,
      V_read \o SP \o P_unclosed,
      V_read \o SP \o P_quoted }
    \cup {v \o SP \o P_file : v \in AllVerbs}
    \cup {v \o SP \o p : v \in {V_info, V_format, V_stat},
                         p \in {STORAGE_INT_PATH_PREFIX, STORAGE_EXT_PATH_PREFIX}}
    \cup {v \o SP \o p : v \in {V_list, V_tree, V_stat},
                         p \in {ROOT_PATH, STORAGE_EXT_PATH_PREFIX}}
    \cup {v \o SP \o P_file \o SP \o a : v \in {V_read_chunks, V_write_chunk},
                                         a \in SizeArgs}
    \cup {v \o SP \o P_file \o SP \o P_dest : v \in {V_copy, V_rename, V_migrate}}
    \cup {v \o SP \o P_foo \o SP \o P_dfoo : v \in {V_copy, V_rename, V_migrate}}
    \cup {v \o SP \o P_file \o SP \o d : v \in {V_copy, V_rename, V_migrate},
                                        d \in {P_quoted, P_unclosed}}

\* the files the storage service may hold at a path
Files == {[i \in 1..len |-> Byte(i)] : len \in {0, 3, 130}}

(***************************************************************************)
(* Calls, printed text and resource accounting                              *)
(***************************************************************************)
OpenTags == {"storage_file_open", "storage_dir_open", "dir_walk_open"}
CloseTags == {"storage_file_close", "storage_dir_close", "dir_walk_free"}
\* every call into the storage service or the storage record
StorageTags ==
    OpenTags \cup CloseTags \cup
    {"furi_record_open", "furi_record_close", "storage_file_alloc",
     "storage_file_free", "dir_walk_alloc", "dir_walk_read", "storage_dir_read",
     "storage_file_read", "storage_file_write", "storage_file_size",
     "storage_common_fs_info", "storage_sd_info", "storage_sd_format",
     "storage_common_stat", "storage_common_timestamp", "storage_common_copy",
     "storage_common_remove", "storage_common_rename", "storage_common_migrate",
     "storage_common_mkdir", "md5_string_calc_file"}

\* a call that returns an FS_Error; a failure is marked by a "fault" event
Call(tag, e) ==
    IF e = FSE_OK THEN <<Ev(tag, e)>> ELSE <<Ev(tag, e), Ev("fault", e)>>

storage_cli_print_usage == <<Ev("usage", 0)>>
storage_cli_print_error(e) == <<Ev("error", e)>>
Text_(s) == <<Ev("text", s)>>

RECURSIVE HandleCount(_, _)
HandleCount(h, tr) ==
    IF tr = <<>> THEN h
    ELSE LET e == Head(tr)
         IN  HandleCount(
                 IF e[1] \in OpenTags /\ e[2] = FSE_OK THEN h + 1
                 ELSE IF e[1] \in CloseTags /\ h > 0 THEN h - 1
                 ELSE h,
                 Tail(tr))

\* the step appends `new` to the trace and moves the session to `next`
Emit(new, next) ==
    /\ observed => faults + Count(new, "fault") <= MaxFaults
    /\ trace' = (IF observed THEN trace \o new ELSE trace)
    /\ recOpen' = recOpen + Count(new, "furi_record_open")
                          - Count(new, "furi_record_close")
    /\ handles' = HandleCount(handles,
                    SelectSeq(new, LAMBDA e : e[1] \in OpenTags \cup CloseTags))
    /\ faults' = (IF observed THEN faults + Count(new, "fault") ELSE faults)
    /\ pc' = next

Results == {FSE_OK} \cup OpenErrors

lineVars == <<command, line, cmd, path, args>>
xferVars == <<disk, disk0, fpos, ferr, buffer, read_index, buffer_size,
              file_size, nGetc>>
devVars == <<rtcFlag, rebooted>>

NoBuffer == <<>>

\* the state after construction, the session recorded or not
Boot(rec) ==
    /\ pc = "idle"
    /\ command = "none" /\ line = <<>>
    /\ cmd = <<>> /\ path = <<>> /\ args = <<>>
    /\ trace = <<>>
    /\ disk = <<>> /\ disk0 = <<>> /\ fpos = 0 /\ ferr = FSE_OK
    /\ recOpen = 0 /\ handles = 0
    /\ buffer = NoBuffer /\ read_index = 0 /\ buffer_size = 0 /\ file_size = 0
    /\ nGetc = 0 /\ faults = 0
    /\ rtcFlag = FALSE /\ rebooted = FALSE
    /\ tree = {} /\ tree0 = {}
    /\ observed = rec

Init == Boot(TRUE)

(***************************************************************************)
(* Dispatcher                                                              *)
(***************************************************************************)
\* storage_cli: two tokens are parsed, then the if-chain picks one handler
storage_cli ==
    /\ pc = "idle"
    /\ command' = "storage"
    /\ \E ln \in Lines :
         LET r1 == args_read_string_and_trim(ln)
             r2 == args_read_probably_quoted_string_and_trim(r1.rest)
             h  == HandlerFor(r1.word)
         IN  /\ line' = ln
             /\ cmd' = (IF r1.ok THEN r1.word ELSE <<>>)
             /\ path' = (IF r1.ok /\ r2.ok THEN r2.word ELSE <<>>)
             /\ args' = (IF r1.ok /\ r2.ok THEN r2.rest ELSE r1.rest)
             /\ IF ~r1.ok \/ ~r2.ok \/ h = "none"
                THEN /\ pc' = "done"
                     /\ trace' = (IF observed THEN storage_cli_print_usage
                                  ELSE trace)
                ELSE /\ pc' = h
                     /\ trace' = (IF observed THEN <<Ev("handler", h)>>
                                  ELSE trace)
    /\ UNCHANGED <<xferVars, faults, recOpen, handles, devVars, tree, tree0, observed>>

(***************************************************************************)
(* Handlers that run to completion without touching the console            *)
(***************************************************************************)
storage_cli_info ==
    /\ pc = "storage_cli_info"
    /\ \E e \in Results :
         Emit(<<Ev("furi_record_open", 0)>>
              \o (IF path = STORAGE_INT_PATH_PREFIX
                  THEN Call("storage_common_fs_info", e)
                       \o (IF e # FSE_OK THEN storage_cli_print_error(e)
                           ELSE Text_("Label"))
                  ELSE IF path = STORAGE_EXT_PATH_PREFIX
                  THEN Call("storage_sd_info", e)
                       \o (IF e # FSE_OK THEN storage_cli_print_error(e)
                           ELSE Text_("Label"))
                  ELSE storage_cli_print_usage)
              \o <<Ev("furi_record_close", 0)>>,
              "done")
    /\ UNCHANGED <<lineVars, xferVars, devVars, tree, tree0, observed>>

\* the directory contents the storage service may yield
E_file(sz) == [name |-> "f", dir |-> FALSE, size |-> sz]
E_dir == [name |-> "d", dir |-> TRUE, size |-> U64Val(0, 0)]
Listings ==
    { <<>>, <<E_file(U64Val(0, 5))>>, <<E_file(U64Val(0, 5)), E_dir>>,
      <<E_dir, E_file(U64Val(1, 5))>> }

\* printf of one directory entry: "[D] name" or "[F] name <(uint32_t)size>b"
PrintEntry(en) ==
    IF en.dir THEN Ev("entry", <<"D", en.name>>)
    ELSE Ev("entry", <<"F", en.name, uint32_t(en.size)>>)

\* while(read(...) == OK) { print entry }: one read per entry, which fills
\* fileinfo, then the read that ends the loop
ReadLoop(readTag, okVal, entries, endVal, endErr) ==
    [i \in 1..(3 * Len(entries)) |->
        IF i % 3 = 1 THEN Ev(readTag, okVal)
        ELSE IF i % 3 = 2 THEN Ev("fileinfo", entries[(i + 1) \div 3])
        ELSE PrintEntry(entries[i \div 3])]
    \o <<Ev(readTag, endVal)>>
    \o (IF endErr = FSE_OK THEN <<>> ELSE <<Ev("fault", endErr)>>)

EndErrs == {FSE_OK} \cup IoErrors

storage_cli_list ==
    /\ pc = "storage_cli_list"
    /\ \E e \in Results, l \in Listings, endErr \in EndErrs :
         Emit(IF path = ROOT_PATH
              THEN Text_("[D] int") \o Text_("[D] ext") \o Text_("[D] any")
              ELSE <<Ev("furi_record_open", 0), Ev("storage_file_alloc", 0)>>
                   \o Call("storage_dir_open", e)
                   \o (IF e = FSE_OK
                       THEN ReadLoop("storage_dir_read", TRUE, l, FALSE, endErr)
                            \o (IF Len(l) = 0 THEN Text_("Empty") ELSE <<>>)
                       ELSE storage_cli_print_error(e))
                   \o <<Ev("storage_dir_close", 0), Ev("storage_file_free", 0),
                        Ev("furi_record_close", 0)>>,
              "done")
    /\ UNCHANGED <<lineVars, xferVars, devVars, tree, tree0, observed>>

\* variant: the indicator is printed after every traversal
PrintsEmpty_always(read_done) == TRUE
\* if(!read_done) printf("\tEmpty\r\n")
PrintsEmpty(read_done) == ~read_done

\* the non-aggregate branch of storage_cli_tree for one path
TreeWalk(p, e, l, endErr) ==
    <<Ev("furi_record_open", 0), Ev("dir_walk_alloc", 0), Ev("path", p)>>
    \o Call("dir_walk_open", e)
    \o (IF e = FSE_OK
        THEN ReadLoop("dir_walk_read", "DirWalkOK", l,
                      IF endErr = FSE_OK THEN "DirWalkLast" ELSE "DirWalkError",
                      endErr)
             \o (IF PrintsEmpty(Len(l) > 0) THEN Text_("Empty") ELSE <<>>)
        ELSE storage_cli_print_error(e))
    \o <<Ev("dir_walk_free", 0), Ev("furi_record_close", 0)>>

\* what one walk may meet: the result of the open, the entries, the result
\* of the read that ends the loop
WalkOutcomes == [e : Results, l : Listings, x : EndErrs]

\* variant: the external volume is walked first
RootVolumes_swapped == <<STORAGE_EXT_PATH_PREFIX, STORAGE_INT_PATH_PREFIX>>
\* the prefixes the aggregate root "/" stands for, in the order they are set
RootVolumes == <<STORAGE_INT_PATH_PREFIX, STORAGE_EXT_PATH_PREFIX>>

\* one call of storage_cli_tree at a recursion depth; w gives the outcome of
\* the walk of the internal prefix and of any other path
RECURSIVE TreeCall(_, _, _)
TreeCall(p, depth, w) ==
    <<Ev("storage_cli_tree", depth)>>
    \o (IF p = ROOT_PATH
        THEN TreeCall(RootVolumes[1], depth + 1, w)
             \o TreeCall(RootVolumes[2], depth + 1, w)
        ELSE LET o == IF p = STORAGE_INT_PATH_PREFIX THEN w.int ELSE w.ext
             IN  TreeWalk(p, o.e, o.l, o.x))

storage_cli_tree ==
    /\ pc = "storage_cli_tree"
    /\ \E w \in [int : WalkOutcomes, ext : WalkOutcomes] :
         Emit(TreeCall(path, 0, w), "done")
    /\ path' = (IF path = ROOT_PATH THEN RootVolumes[2] ELSE path)
    /\ UNCHANGED <<command, line, cmd, args, xferVars, devVars, tree, tree0, observed>>

storage_cli_stat ==
    /\ pc = "storage_cli_stat"
    /\ \E e \in Results, en \in {E_dir, E_file(U64Val(0, 5)), E_file(U64Val(1, 5))} :
         Emit(<<Ev("furi_record_open", 0)>>
              \o (IF path = ROOT_PATH THEN Text_("Storage")
                  ELSE IF path \in {STORAGE_EXT_PATH_PREFIX, STORAGE_INT_PATH_PREFIX,
                                    STORAGE_ANY_PATH_PREFIX}
                  THEN Call("storage_common_fs_info", e)
                       \o (IF e # FSE_OK THEN storage_cli_print_error(e)
                           ELSE Text_("Storage, total, free"))
                  ELSE Call("storage_common_stat", e)
                       \o (IF e = FSE_OK
                           THEN <<Ev("fileinfo", en)>>
                                \o (IF en.dir THEN Text_("Directory")
                                    ELSE <<Ev("file_size", uint32_t(en.size))>>)
                           ELSE storage_cli_print_error(e)))
              \o <<Ev("furi_record_close", 0)>>,
              "done")
    /\ UNCHANGED <<lineVars, xferVars, devVars, tree, tree0, observed>>

storage_cli_timestamp ==
    /\ pc = "storage_cli_timestamp"
    /\ \E e \in Results :
         Emit(<<Ev("furi_record_open", 0)>>
              \o Call("storage_common_timestamp", e)
              \o (IF e # FSE_OK THEN Text_("Invalid arguments")
                  ELSE Text_("Timestamp"))
              \o <<Ev("furi_record_close", 0)>>,
              "done")
    /\ UNCHANGED <<lineVars, xferVars, devVars, tree, tree0, observed>>

(***************************************************************************)
(* The storage tree and the copy / rename / migrate primitives              *)
(***************************************************************************)
N_ext == <<"e", "x", "t">>
N_foo == <<"f", "o", "o">>

\* a path string split at its '/' separators into its names
Components(p) ==
    LET starts == {i \in 1..Len(p) : p[i] # "/" /\ (i = 1 \/ p[i - 1] = "/")}
        ends   == {i \in 1..Len(p) : p[i] # "/" /\ (i = Len(p) \/ p[i + 1] = "/")}
        nth(k) == CHOOSE i \in starts : Cardinality({j \in starts : j < i}) = k - 1
    IN  [k \in 1..Cardinality(starts) |->
            SubSeq(p, nth(k), Min({j \in ends : j >= nth(k)}))]

\* an entry of the storage tree: where it is, its kind, its content
FileNode(at, data) == [at |-> at, dir |-> FALSE, data |-> data]
DirNode(at) == [at |-> at, dir |-> TRUE, data |-> 0]
Exists(fs, q) == \E n \in fs : n.at = q
NodeAt(fs, q) == CHOOSE n \in fs : n.at = q
Parent(q) == SubSeq(q, 1, Len(q) - 1)
Last(q) == q[Len(q)]
\* q is p or lies below p
Under(p, q) == Len(q) >= Len(p) /\ SubSeq(q, 1, Len(p)) = p
\* the path q, which lies under `from`, moved under `to`
Rebase(q, from, to) == to \o SubSeq(q, Len(from) + 1, Len(q))
Children(fs, q) == {n.at : n \in {m \in fs : Len(m.at) = Len(q) + 1 /\ Under(q, m.at)}}
\* the members of a set in the order the directory yields them
SeqOf(S) ==
    CHOOSE f \in [1..Cardinality(S) -> S] :
        \A i, j \in 1..Cardinality(S) : i # j => f[i] # f[j]

RECURSIVE ToDecimal(_)
ToDecimal(k) ==
    IF k < 10 THEN <<Digits[k + 1]>>
    ELSE ToDecimal(k \div 10) \o <<Digits[(k % 10) + 1]>>

\* candidate k of the sequence base, base_1, base_2, ...
Candidate(base, k) ==
    IF k = 0 THEN base ELSE base \o <<"_">> \o ToDecimal(k)

\* variant: the name itself is taken even when it is in use
FirstFree_overwrite(fs, dir, base) == Append(dir, base)
\* the first candidate of the sequence that is not present in directory dir
FirstFree(fs, dir, base) ==
    LET free == {k \in 0..Cardinality(fs) : ~Exists(fs, Append(dir, Candidate(base, k)))}
    IN  Append(dir, Candidate(base, Min(free)))

\* one step on the storage tree
Apply(fs, o) ==
    LET moved == {[n EXCEPT !.at = Rebase(n.at, o.src, o.to)] :
                     n \in {m \in fs : Under(o.src, m.at)}}
    IN  CASE o.op = "mkdir"  -> fs \cup {DirNode(o.to)}
          [] o.op = "move"   -> (fs \ {NodeAt(fs, o.src)})
                                \cup {[NodeAt(fs, o.src) EXCEPT !.at = o.to]}
          [] o.op = "rmdir"  -> fs \ {NodeAt(fs, o.src)}
          [] o.op = "rename" -> {n \in fs : ~Under(o.src, n.at) /\ ~Under(o.to, n.at)}
                                \cup moved
          [] o.op = "copy"   -> {n \in fs : ~Under(o.to, n.at)} \cup moved

RECURSIVE ApplyAll(_, _)
ApplyAll(fs, ops) ==
    IF ops = <<>> THEN fs ELSE ApplyAll(Apply(fs, Head(ops)), Tail(ops))

Step(op, src, to) == [op |-> op, src |-> src, to |-> to]

\* the steps the migration engine takes for a work list: every entry goes to
\* the first unused candidate of its name in the directory its parent went
\* to; a directory is created there, its entries follow, then it is removed
RECURSIVE MigrateOps(_, _)
MigrateOps(fs, tasks) ==
    IF tasks = <<>> THEN <<>>
    ELSE LET t == Head(tasks)
         IN  IF t.op = "rmdir"
             THEN <<t>> \o MigrateOps(Apply(fs, t), Tail(tasks))
             ELSE LET node == NodeAt(fs, t.src)
                      to   == FirstFree(fs, t.dir, t.base)
                      step == Step(IF node.dir THEN "mkdir" ELSE "move", t.src, to)
                      kids == SeqOf(Children(fs, t.src))
                      sub  == [i \in 1..Len(kids) |->
                                 [op |-> "place", src |-> kids[i], dir |-> to,
                                  base |-> Last(kids[i])]]
                              \o (IF node.dir THEN <<Step("rmdir", t.src, <<>>)>>
                                  ELSE <<>>)
                  IN  <<step>> \o MigrateOps(Apply(fs, step), sub \o Tail(tasks))

\* the primitives, as the steps they take on the tree
storage_common_migrate(fs, src, dst) ==
    IF ~Exists(fs, src) \/ dst = <<>> THEN <<>>
    ELSE MigrateOps(fs, <<[op |-> "place", src |-> src, dir |-> Parent(dst),
                            base |-> Last(dst)]>>)
storage_common_rename(fs, src, dst) ==
    IF ~Exists(fs, src) \/ dst = <<>> THEN <<>> ELSE <<Step("rename", src, dst)>>
storage_common_copy(fs, src, dst) ==
    IF ~Exists(fs, src) \/ dst = <<>> THEN <<>> ELSE <<Step("copy", src, dst)>>

PrimitiveOps(primitive, fs, src, dst) ==
    CASE primitive = "storage_common_migrate" -> storage_common_migrate(fs, src, dst)
      [] primitive = "storage_common_rename"  -> storage_common_rename(fs, src, dst)
      [] primitive = "storage_common_copy"    -> storage_common_copy(fs, src, dst)

\* the trees the storage service may hold when a primitive is called
T_base == {DirNode(<<N_ext>>), DirNode(<<N_ext, <<"d">>>>)}
T_free == T_base \cup {FileNode(<<N_ext, N_foo>>, 1), FileNode(<<N_ext, <<"f">>>>, 2)}
T_one ==
    T_free \cup {FileNode(<<N_ext, <<"d">>, N_foo>>, 3), FileNode(<<N_ext, <<"g">>>>, 4)}
T_two ==
    T_one \cup {DirNode(<<N_ext, <<"d">>, Candidate(N_foo, 1)>>),
                FileNode(<<N_ext, <<"d">>, Candidate(N_foo, 1), <<"a">>>>, 5)}
T_dir ==
    T_base \cup
    {DirNode(<<N_ext, N_foo>>), FileNode(<<N_ext, N_foo, <<"a">>>>, 1),
     DirNode(<<N_ext, N_foo, <<"s">>>>), FileNode(<<N_ext, N_foo, <<"s">>, <<"b">>>>, 2),
     DirNode(<<N_ext, <<"d">>, N_foo>>), FileNode(<<N_ext, <<"d">>, N_foo, <<"a">>>>, 3),
     FileNode(<<N_ext, <<"d">>, Candidate(N_foo, 1)>>, 4)}
Trees == {T_base, T_free, T_one, T_two, T_dir}

\* variant: the result of the destination parse is ignored
CallsPrimitive_always(np) == TRUE
\* if(!args_read_probably_quoted_string_and_trim(args, new_path)) usage
CallsPrimitive(np) == np.ok

\* copy, rename and migrate share one shape: parse the destination, call the
\* primitive, print its error
TwoPathHandler(primitive, e) ==
    LET np == args_read_probably_quoted_string_and_trim(args)
    IN  <<Ev("furi_record_open", 0)>>
        \o (IF ~CallsPrimitive(np) THEN storage_cli_print_usage
            ELSE <<Ev("path", path), Ev("path", np.word)>>
                 \o Call(primitive, e)
                 \o (IF e # FSE_OK THEN storage_cli_print_error(e) ELSE <<>>))
        \o <<Ev("furi_record_close", 0)>>

\* the handler's step: the tree the service holds, the primitive's steps on
\* it; a failing primitive stops somewhere before its last step
TwoPathStep(primitive) ==
    \E e \in Results, t \in Trees :
        LET np  == args_read_probably_quoted_string_and_trim(args)
            ops == IF CallsPrimitive(np)
                   THEN PrimitiveOps(primitive, t, Components(path),
                                     Components(np.word))
                   ELSE <<>>
            done == IF e = FSE_OK \/ ops = <<>> THEN {Len(ops)}
                    ELSE 0..(Len(ops) - 1)
        IN  /\ Emit(TwoPathHandler(primitive, e), "done")
            /\ tree0' = t
            /\ \E k \in done : tree' = ApplyAll(t, SubSeq(ops, 1, k))

storage_cli_copy ==
    /\ pc = "storage_cli_copy"
    /\ TwoPathStep("storage_common_copy")
    /\ UNCHANGED <<lineVars, xferVars, devVars, observed>>

storage_cli_rename ==
    /\ pc = "storage_cli_rename"
    /\ TwoPathStep("storage_common_rename")
    /\ UNCHANGED <<lineVars, xferVars, devVars, observed>>

storage_cli_migrate ==
    /\ pc = "storage_cli_migrate"
    /\ TwoPathStep("storage_common_migrate")
    /\ UNCHANGED <<lineVars, xferVars, devVars, observed>>

\* remove and mkdir: one primitive on the path
OnePathHandler(primitive, e) ==
    <<Ev("furi_record_open", 0)>>
    \o Call(primitive, e)
    \o (IF e # FSE_OK THEN storage_cli_print_error(e) ELSE <<>>)
    \o <<Ev("furi_record_close", 0)>>

storage_cli_remove ==
    /\ pc = "storage_cli_remove"
    /\ \E e \in Results : Emit(OnePathHandler("storage_common_remove", e), "done")
    /\ UNCHANGED <<lineVars, xferVars, devVars, tree, tree0, observed>>

storage_cli_mkdir ==
    /\ pc = "storage_cli_mkdir"
    /\ \E e \in Results : Emit(OnePathHandler("storage_common_mkdir", e), "done")
    /\ UNCHANGED <<lineVars, xferVars, devVars, tree, tree0, observed>>

storage_cli_md5 ==
    /\ pc = "storage_cli_md5"
    /\ \E e \in Results :
         Emit(<<Ev("furi_record_open", 0), Ev("storage_file_alloc", 0)>>
              \o Call("md5_string_calc_file", e)
              \o (IF e = FSE_OK THEN Text_("md5") ELSE storage_cli_print_error(e))
              \o <<Ev("storage_file_close", 0), Ev("storage_file_free", 0),
                   Ev("furi_record_close", 0)>>,
              "done")
    /\ UNCHANGED <<lineVars, xferVars, devVars, tree, tree0, observed>>

(***************************************************************************)
(* Storage reads and writes, as the storage service may answer them         *)
(***************************************************************************)
Uninit == -1
Malloc(size) == [i \in 0..(size - 1) |-> Uninit]
\* the first n bytes of a buffer
Chunk(buf, n) == [i \in 1..n |-> buf[i - 1]]
\* byte counts a failing transfer of `full` bytes may report
ShortCounts(full) == {0} \cup (IF full >= 2 THEN {full - 1} ELSE {})

\* storage_file_read(file, data, req) with avail bytes left in the file
ReadOutcomes(req, avail) ==
    LET full == IF req < avail THEN req ELSE avail
    IN  {[n |-> full, err |-> FSE_OK]}
        \cup {[n |-> k, err |-> e] : k \in ShortCounts(full), e \in IoErrors}

\* storage_file_write(file, buf, size)
WriteOutcomes(size) ==
    {[n |-> size, err |-> FSE_OK]}
    \cup {[n |-> k, err |-> e] : k \in ShortCounts(size), e \in IoErrors}

\* a transfer call: the size requested, the count returned, a "fault" event
\* when the call failed
IoCall(tag, req, o) ==
    <<Ev(tag, req), Ev("ret", o.n)>>
    \o (IF o.err = FSE_OK THEN <<>> ELSE <<Ev("fault", o.err)>>)

\* printf("%c") / putchar of the first n bytes of a buffer
PrintBytes(tag, buf, n) == [i \in 1..n |-> Ev(tag, buf[i - 1])]

\* variant: the handle is freed without being closed
FileEpilogue_noclose ==
    <<Ev("storage_file_free", 0), Ev("furi_record_close", 0)>>
\* storage_file_close; storage_file_free; furi_record_close
FileEpilogue ==
    <<Ev("storage_file_close", 0), Ev("storage_file_free", 0),
      Ev("furi_record_close", 0)>>

(***************************************************************************)
(* storage_cli_read: read-to-completion                                     *)
(***************************************************************************)
storage_cli_read ==
    /\ pc = "storage_cli_read"
    /\ \E e \in Results, f \in Files :
         /\ Emit(<<Ev("furi_record_open", 0), Ev("storage_file_alloc", 0)>>
                 \o Call("storage_file_open", e)
                 \o (IF e = FSE_OK
                     THEN <<Ev("storage_file_size", Len(f)),
                            Ev("size", uint32_t(U64Val(0, Len(f))))>>
                     ELSE storage_cli_print_error(e) \o FileEpilogue),
                 IF e = FSE_OK THEN "read_loop" ELSE "done")
         /\ disk' = (IF e = FSE_OK THEN f ELSE <<>>)
         /\ disk0' = disk'
         /\ buffer' = (IF e = FSE_OK THEN Malloc(READ_BUFFER_SIZE) ELSE NoBuffer)
         /\ ferr' = e
    /\ UNCHANGED <<lineVars, fpos, read_index, buffer_size, file_size, nGetc,
                   devVars, tree, tree0, observed>>

\* variant: the loop stops at the first block that is not full
ReadLoops_full(read_size) == read_size = READ_BUFFER_SIZE
\* while(read_size > 0)
ReadLoops(read_size) == read_size > 0

\* one pass of the do-while: a read of up to 128 bytes, printed; a read of zero
\* bytes ends the loop
storage_cli_read_block ==
    /\ pc = "read_loop"
    /\ \E o \in ReadOutcomes(READ_BUFFER_SIZE, Len(disk) - fpos) :
         LET data == [i \in DOMAIN buffer |->
                         IF i < o.n THEN disk[fpos + i + 1] ELSE buffer[i]]
         IN  /\ Emit(IoCall("storage_file_read", READ_BUFFER_SIZE, o)
                     \o PrintBytes("data", data, o.n)
                     \o (IF ReadLoops(o.n) THEN <<>>
                         ELSE Text_("CRLF") \o FileEpilogue),
                     IF ReadLoops(o.n) THEN "read_loop" ELSE "done")
             /\ buffer' = data
             /\ fpos' = fpos + o.n
             /\ ferr' = o.err
    /\ UNCHANGED <<lineVars, disk, disk0, read_index, buffer_size, file_size, nGetc,
                   devVars, tree, tree0, observed>>

(***************************************************************************)
(* storage_cli_write: write-until-cancel                                    *)
(***************************************************************************)
storage_cli_write ==
    /\ pc = "storage_cli_write"
    /\ \E e \in Results, f \in Files :
         /\ Emit(<<Ev("furi_record_open", 0), Ev("storage_file_alloc", 0)>>
                 \o Call("storage_file_open", e)
                 \o (IF e = FSE_OK
                     THEN Text_("Just write your text data")
                     ELSE storage_cli_print_error(e) \o FileEpilogue),
                 IF e = FSE_OK THEN "write_loop" ELSE "done")
         /\ disk' = (IF e = FSE_OK THEN f ELSE <<>>)
         /\ disk0' = disk'
         /\ ferr' = e
    /\ buffer' = Malloc(WRITE_BUFFER_SIZE)
    /\ read_index' = 0
    /\ UNCHANGED <<lineVars, fpos, buffer_size, file_size, nGetc, devVars, tree, tree0, observed>>

\* the slot of the buffer the next symbol goes to
BufferSlot(ri) == ri % WRITE_BUFFER_SIZE
\* the cancel branch that flushes the remainder and leaves the loop
CancelBreaks(symbol, ri) ==
    symbol = CliSymbolAsciiETX /\ ri % WRITE_BUFFER_SIZE > 0
\* variant: the count a flush returns is not looked at
FlushFailed_never(written_size, size) == FALSE
\* if(written_size != write_size), if(written_size != buffer_size)
FlushFailed(written_size, size) == written_size # size
\* variant: the flush comes one symbol early
FlushDue_early(ri) == ri % WRITE_BUFFER_SIZE = WRITE_BUFFER_SIZE - 1
\* the buffer has just been filled
FlushDue(ri) == ri % WRITE_BUFFER_SIZE = 0

\* one pass of while(true): a symbol is taken from the console; it either
\* cancels (flush of the remainder, break) or is stored and echoed, with a
\* flush of the whole buffer when that filled it
storage_cli_write_symbol ==
    /\ pc = "write_loop"
    /\ nGetc < MaxSymbols
    /\ \E symbol \in {CliSymbolAsciiETX, Text(nGetc + 1)} :
         IF CancelBreaks(symbol, read_index)
         THEN LET write_size == read_index % WRITE_BUFFER_SIZE
              IN  \E o \in WriteOutcomes(write_size) :
                    /\ Emit(<<Ev("cli_getc", symbol)>>
                            \o IoCall("storage_file_write", write_size, o)
                            \o (IF FlushFailed(o.n, write_size)
                                THEN storage_cli_print_error(o.err) ELSE <<>>)
                            \o Text_("CRLF") \o FileEpilogue,
                            "done")
                    /\ disk' = disk \o Chunk(buffer, o.n)
                    /\ ferr' = o.err
                    /\ UNCHANGED <<buffer, read_index>>
         ELSE LET buf == [buffer EXCEPT ![BufferSlot(read_index)] = symbol]
                  ri  == read_index + 1
              IN  /\ buffer' = buf
                  /\ read_index' = ri
                  /\ IF FlushDue(ri)
                     THEN \E o \in WriteOutcomes(WRITE_BUFFER_SIZE) :
                            /\ Emit(<<Ev("cli_getc", symbol),
                                      Ev("echo", buf[BufferSlot(read_index)])>>
                                    \o IoCall("storage_file_write", WRITE_BUFFER_SIZE, o)
                                    \o (IF FlushFailed(o.n, WRITE_BUFFER_SIZE)
                                        THEN storage_cli_print_error(o.err)
                                             \o Text_("CRLF") \o FileEpilogue
                                        ELSE <<>>),
                                    IF FlushFailed(o.n, WRITE_BUFFER_SIZE)
                                    THEN "done" ELSE "write_loop")
                            /\ disk' = disk \o Chunk(buf, o.n)
                            /\ ferr' = o.err
                     ELSE /\ Emit(<<Ev("cli_getc", symbol),
                                    Ev("echo", buf[BufferSlot(read_index)])>>,
                                  "write_loop")
                          /\ UNCHANGED <<disk, ferr>>
    /\ nGetc' = nGetc + 1
    /\ UNCHANGED <<lineVars, disk0, fpos, buffer_size, file_size, devVars, tree, tree0, observed>>

(***************************************************************************)
(* storage_cli_read_chunks: read-in-chunks                                  *)
(***************************************************************************)
\* variant: only the end of input counts as a parse failure
ParseOk_loose(parsed_count) == parsed_count # -1
\* parsed_count != 1 is the usage error
ParseOk(parsed_count) == parsed_count = 1
\* variant: the loop stops one byte short
ReadChunksLoops_short(fs) == fs > 1
\* while(file_size > 0)
ReadChunksLoops(fs) == fs > 0

storage_cli_read_chunks ==
    /\ pc = "storage_cli_read_chunks"
    /\ \E e \in Results, f \in Files :
         LET p     == sscanf_lu(args)
             opens == ParseOk(p.count) /\ e = FSE_OK
             loops == opens /\ p.value # 0 /\ ReadChunksLoops(Len(f))
         IN  /\ Emit(<<Ev("furi_record_open", 0), Ev("storage_file_alloc", 0)>>
                     \o (IF ~ParseOk(p.count) THEN storage_cli_print_usage
                         ELSE Call("storage_file_open", e)
                              \o (IF e = FSE_OK
                                  THEN <<Ev("storage_file_size", Len(f)),
                                         Ev("size", Len(f))>>
                                  ELSE storage_cli_print_error(e)))
                     \o (IF loops THEN <<>>
                         ELSE (IF opens THEN Text_("CRLF") ELSE <<>>)
                              \o FileEpilogue),
                     IF loops THEN "read_chunks_loop" ELSE "done")
             /\ disk' = (IF opens THEN f ELSE <<>>)
             /\ disk0' = disk'
             /\ file_size' = (IF opens THEN Len(f) ELSE 0)
             /\ buffer_size' = p.value
             /\ buffer' = (IF loops THEN Malloc(p.value) ELSE NoBuffer)
             /\ ferr' = (IF ParseOk(p.count) THEN e ELSE FSE_OK)
    /\ UNCHANGED <<lineVars, fpos, read_index, nGetc, devVars, tree, tree0, observed>>

\* variant: the prompt is printed and the answer is not awaited
Handshake_none(symbol) == Text_("Ready?")
\* printf("\r\nReady?\r\n"); cli_getc(cli);
Handshake(symbol) == Text_("Ready?") \o <<Ev("cli_getc", symbol)>>

\* a pass of while(file_size > 0) starts: the prompt, then the blocking
\* cli_getc whose value is dropped
storage_cli_read_chunks_handshake ==
    /\ pc = "read_chunks_loop"
    /\ observed => nGetc < MaxChunkReads
    /\ Emit(Handshake(Text(nGetc + 1)), "read_chunks_read")
    /\ nGetc' = (IF observed THEN nGetc + 1 ELSE nGetc)
    /\ UNCHANGED <<lineVars, disk, disk0, fpos, ferr, buffer, read_index,
                   buffer_size, file_size, devVars, tree, tree0, observed>>

\* the pass goes on: one read, the bytes read are printed and counted off
storage_cli_read_chunks_chunk ==
    /\ pc = "read_chunks_read"
    /\ \E o \in ReadOutcomes(buffer_size, Len(disk) - fpos) :
         LET data == [i \in DOMAIN buffer |->
                         IF i < o.n THEN disk[fpos + i + 1] ELSE buffer[i]]
             left == file_size - o.n
         IN  /\ Emit(IoCall("storage_file_read", buffer_size, o)
                     \o PrintBytes("data", data, o.n)
                     \o (IF ReadChunksLoops(left) THEN <<>>
                         ELSE Text_("CRLF") \o FileEpilogue),
                     IF ReadChunksLoops(left) THEN "read_chunks_loop" ELSE "done")
             /\ buffer' = data
             /\ fpos' = fpos + o.n
             /\ file_size' = left
             /\ ferr' = o.err
    /\ UNCHANGED <<lineVars, disk, disk0, read_index, buffer_size, nGetc,
                   devVars, tree, tree0, observed>>

(***************************************************************************)
(* storage_cli_write_chunk: write-one-chunk                                 *)
(***************************************************************************)
storage_cli_write_chunk ==
    /\ pc = "storage_cli_write_chunk"
    /\ \E e \in Results, f \in Files :
         LET p     == sscanf_lu(args)
             opens == ParseOk(p.count) /\ e = FSE_OK
             reads == opens /\ p.value # 0
         IN  /\ Emit(<<Ev("furi_record_open", 0), Ev("storage_file_alloc", 0)>>
                     \o (IF ~ParseOk(p.count) THEN storage_cli_print_usage
                         ELSE Call("storage_file_open", e)
                              \o (IF e = FSE_OK THEN Text_("Ready")
                                  ELSE storage_cli_print_error(e)))
                     \o (IF reads THEN <<>>
                         ELSE (IF ParseOk(p.count) THEN <<Ev("storage_file_close", 0)>>
                               ELSE <<>>)
                              \o <<Ev("storage_file_free", 0),
                                   Ev("furi_record_close", 0)>>),
                     IF reads THEN "write_chunk_read" ELSE "done")
             /\ disk' = (IF opens THEN f ELSE <<>>)
             /\ disk0' = disk'
             /\ buffer_size' = p.value
             /\ buffer' = (IF reads THEN Malloc(p.value) ELSE NoBuffer)
             /\ ferr' = (IF ParseOk(p.count) THEN e ELSE FSE_OK)
    /\ UNCHANGED <<lineVars, fpos, read_index, file_size, nGetc, devVars, tree, tree0, observed>>

\* byte counts the bounded console read may return for a request of n bytes
CliReadCounts(n) == {k \in {0, 1, n - 1, n} : 0 <= k /\ k <= n}

\* variant: the check is made against the bytes read from the console
WriteChunkExpected_read(requested, read_bytes) == read_bytes
\* the value the post-write check compares the written count with
WriteChunkExpected(requested, read_bytes) == requested

\* variant: the write is handed the size that was requested
WriteChunkCount_requested(requested, read_bytes) == requested
\* the byte count handed to storage_file_write after the console read
WriteChunkCount(requested, read_bytes) == read_bytes

\* cli_read of buffer_size bytes, one write of what was read, the check
storage_cli_write_chunk_read ==
    /\ pc = "write_chunk_read"
    /\ \E read_bytes \in CliReadCounts(buffer_size) :
         LET buf == [i \in DOMAIN buffer |->
                        IF i < read_bytes THEN Byte(i + 1) ELSE buffer[i]]
             wr  == WriteChunkCount(buffer_size, read_bytes)
         IN  \E o \in WriteOutcomes(wr) :
               /\ Emit(<<Ev("cli_read", buffer_size), Ev("ret", read_bytes)>>
                       \o IoCall("storage_file_write", wr, o)
                       \o (IF o.n # WriteChunkExpected(buffer_size, read_bytes)
                           THEN storage_cli_print_error(o.err) ELSE <<>>)
                       \o FileEpilogue,
                       "done")
               /\ buffer' = buf
               /\ disk' = disk \o Chunk(buf, o.n)
               /\ ferr' = o.err
    /\ UNCHANGED <<lineVars, disk0, fpos, read_index, buffer_size, file_size, nGetc,
                   devVars, tree, tree0, observed>>

(***************************************************************************)
(* Destructive commands: format and factory_reset                           *)
(***************************************************************************)
CHAR_y == 121
CHAR_Y == 89
CHAR_n == 110
\* what the user may answer to a y/n prompt
Answers == {CHAR_y, CHAR_Y, CHAR_n, CliSymbolAsciiETX}
\* variant: anything but 'n' confirms
Confirmed_notn(answer) == answer # CHAR_n
\* answer == 'y' || answer == 'Y'
Confirmed(answer) == answer = CHAR_y \/ answer = CHAR_Y

storage_cli_format ==
    /\ pc = "storage_cli_format"
    /\ IF path = STORAGE_INT_PATH_PREFIX
       THEN Emit(storage_cli_print_error(FSE_NOT_IMPLEMENTED), "done")
       ELSE IF path = STORAGE_EXT_PATH_PREFIX
       THEN Emit(Text_("Formatting SD card, Are you sure (y/n)?"), "format_confirm")
       ELSE Emit(storage_cli_print_usage, "done")
    /\ UNCHANGED <<lineVars, xferVars, devVars, tree, tree0, observed>>

storage_cli_format_answer ==
    /\ pc = "format_confirm"
    /\ \E answer \in Answers, e \in Results :
         IF Confirmed(answer)
         THEN Emit(<<Ev("cli_getc", answer), Ev("furi_record_open", 0)>>
                   \o Text_("Formatting, please wait...")
                   \o Call("storage_sd_format", e)
                   \o (IF e # FSE_OK THEN storage_cli_print_error(e)
                       ELSE Text_("SD card was successfully formatted."))
                   \o <<Ev("furi_record_close", 0)>>,
                   "done")
         ELSE Emit(<<Ev("cli_getc", answer)>> \o Text_("Cancelled."), "done")
    /\ UNCHANGED <<lineVars, xferVars, devVars, tree, tree0, observed>>

\* the factory_reset console command: the prompt
storage_cli_factory_reset ==
    /\ pc = "idle"
    /\ pc' = "factory_reset_confirm"
    /\ command' = "factory_reset"
    /\ UNCHANGED <<line, cmd, path, args>>
    /\ trace' = (IF observed
                 THEN <<Ev("handler", "storage_cli_factory_reset")>>
                      \o Text_("All data will be lost! Are you sure (y/n)?")
                 ELSE trace)
    /\ UNCHANGED <<xferVars, faults, recOpen, handles, devVars, tree, tree0, observed>>

\* the factory_reset console command: the answer
storage_cli_factory_reset_answer ==
    /\ pc = "factory_reset_confirm"
    /\ \E c \in Answers :
         IF Confirmed(c)
         THEN /\ Emit(<<Ev("cli_getc", c)>>
                      \o Text_("Data will be wiped after reboot.")
                      \o <<Ev("furi_hal_rtc_set_flag", 0), Ev("power_reboot", 0)>>,
                      "rebooted")
              /\ rtcFlag' = TRUE
              /\ rebooted' = TRUE
         ELSE /\ Emit(<<Ev("cli_getc", c)>> \o Text_("Safe choice."), "done")
              /\ UNCHANGED <<rtcFlag, rebooted>>
    /\ UNCHANGED <<lineVars, xferVars, tree, tree0, observed>>

(***************************************************************************)
(* Return to the console session                                            *)
(***************************************************************************)
\* the command has returned: its strings and locals are gone and the session
\* waits for the next line
storage_cli_return ==
    /\ pc = "done"
    /\ pc' = "idle"
    /\ command' = "none" /\ line' = <<>>
    /\ cmd' = <<>> /\ path' = <<>> /\ args' = <<>>
    /\ trace' = <<>>
    /\ disk' = <<>> /\ disk0' = <<>> /\ fpos' = 0 /\ ferr' = FSE_OK
    /\ buffer' = NoBuffer /\ read_index' = 0 /\ buffer_size' = 0
    /\ file_size' = 0 /\ nGetc' = 0 /\ faults' = 0
    /\ tree' = {} /\ tree0' = {}
    /\ UNCHANGED <<recOpen, handles, devVars, observed>>

(***************************************************************************)
(* Specification                                                           *)
(***************************************************************************)
Next ==
    \/ storage_cli
    \/ storage_cli_info
    \/ storage_cli_format
    \/ storage_cli_format_answer
    \/ storage_cli_list
    \/ storage_cli_tree
    \/ storage_cli_read
    \/ storage_cli_read_block
    \/ storage_cli_read_chunks
    \/ storage_cli_read_chunks_handshake
    \/ storage_cli_read_chunks_chunk
    \/ storage_cli_write
    \/ storage_cli_write_symbol
    \/ storage_cli_write_chunk
    \/ storage_cli_write_chunk_read
    \/ storage_cli_copy
    \/ storage_cli_remove
    \/ storage_cli_rename
    \/ storage_cli_migrate
    \/ storage_cli_mkdir
    \/ storage_cli_md5
    \/ storage_cli_stat
    \/ storage_cli_timestamp
    \/ storage_cli_factory_reset
    \/ storage_cli_factory_reset_answer
    \/ storage_cli_return

Spec == Init /\ [][Next]_vars

\* The same program with the record of calls and output switched off: its
\* states are the program's own, so a loop that makes no progress is a cycle.
\* The console supplies every handshake symbol that is awaited and every
\* storage read returns.
LiveSpec ==
    /\ Boot(FALSE) /\ [][Next]_vars
    /\ WF_vars(storage_cli_read_chunks_handshake)
    /\ WF_vars(storage_cli_read_chunks_chunk)

(***************************************************************************)
(* Observations used by the properties                                      *)
(***************************************************************************)
Has(tr, tag, val) == \E i \in 1..Len(tr) : tr[i][1] = tag /\ tr[i][2] = val
\* the current handler opened its file
Opened == Has(trace, "storage_file_open", FSE_OK)
NoFault == Count(trace, "fault") = 0
\* bytes the current handler appended to its file
Appended == SubSeq(disk, Len(disk0) + 1, Len(disk))
\* symbols the console delivered through cli_getc, in order
Delivered == Vals(trace, "cli_getc")
\* symbols write-until-cancel stored in its buffer and echoed, in order
Consumed == Vals(trace, "echo")
\* bytes printed by the read handlers, in order
Emitted == Vals(trace, "data")
\* positions of the echo events, in order
EchoPos ==
    SelectSeq([i \in 1..Len(trace) |-> i], LAMBDA i : trace[i][1] = "echo")
\* the storage command with this verb is running or has just returned
Running(verb) == command = "storage" /\ cmd = verb
BeforeFirstCancel(seq) ==
    LET c == {i \in 1..Len(seq) : seq[i] = CliSymbolAsciiETX}
    IN  IF c = {} THEN seq ELSE SubSeq(seq, 1, Min(c) - 1)
\* the positions of the session that belong to a handler
HandlerPcs(h) ==
    {h, "done"} \cup
    (CASE h = "storage_cli_read" -> {"read_loop"}
       [] h = "storage_cli_write" -> {"write_loop"}
       [] h = "storage_cli_read_chunks" -> {"read_chunks_loop", "read_chunks_read"}
       [] h = "storage_cli_write_chunk" -> {"write_chunk_read"}
       [] h = "storage_cli_format" -> {"format_confirm"}
       [] OTHER -> {})
\* the path token of the line, as the dispatcher handed it to the handler
PathToken ==
    args_read_probably_quoted_string_and_trim(args_read_string_and_trim(line).rest).word
InTwoPath == command = "storage" /\ cmd \in {V_copy, V_rename, V_migrate}
\* the primitive the handler of a verb calls
PrimitiveOf(c) ==
    CASE c = V_copy -> "storage_common_copy"
      [] c = V_rename -> "storage_common_rename"
      [] c = V_migrate -> "storage_common_migrate"
\* the destination path the two-path handlers parse from the trailing text
new_path == args_read_probably_quoted_string_and_trim(args)

(***************************************************************************)
(* Properties                                                               *)
(***************************************************************************)

\* C1: write-until-cancel round trip.  When storage_cli_write returns after a
\* session in which every storage write succeeded in full, the bytes appended
\* to the file are exactly the symbols delivered before the cancel symbol.
C1_RoundTrip ==
    (Running(V_write) /\ pc = "done" /\ Opened /\ NoFault)
        => Appended = BeforeFirstCancel(Delivered)

\* C2: in write-until-cancel the cancel symbol always ends the session: once
\* it has been delivered the handler has returned, it was the last symbol
\* read, it was neither echoed nor stored in the buffer, and the only write
\* after it is the flush of a nonzero remainder.
C2_CancelEndsSession ==
    Running(V_write) =>
        LET c == {i \in 1..Len(Delivered) : Delivered[i] = CliSymbolAsciiETX}
        IN  c # {} =>
              /\ pc = "done"
              /\ Min(c) = Len(Delivered)
              /\ \A i \in 1..Len(Consumed) : Consumed[i] # CliSymbolAsciiETX
              /\ \A k \in DOMAIN buffer : buffer[k] # CliSymbolAsciiETX
              /\ Count(trace, "storage_file_write")
                   = (read_index \div WRITE_BUFFER_SIZE)
                     + (IF read_index % WRITE_BUFFER_SIZE > 0 THEN 1 ELSE 0)

\* C10: TransferSession invariant of write-until-cancel.  While the session
\* runs, the bytes written to storage followed by the pending bytes of the
\* buffer are the consumed symbols; a flush of 512 bytes follows the echo of
\* a symbol exactly when that symbol brings the count of consumed symbols to
\* a positive multiple of 512; the remainder is flushed at most once, by the
\* cancel that ends the session, with the size of the pending bytes; and a
\* session whose writes all succeeded ends with exactly the consumed symbols
\* appended.
C10_TransferSession ==
    (Running(V_write) /\ Opened) =>
        LET W    == Positions(trace, "storage_file_write")
            full == {j \in W : trace[j][2] = WRITE_BUFFER_SIZE}
            part == W \ full
        IN  /\ Len(Consumed) = read_index
            /\ pc = "write_loop" =>
                 Appended \o Chunk(buffer, read_index % WRITE_BUFFER_SIZE) = Consumed
            /\ \A m \in 1..(Len(EchoPos) \div WRITE_BUFFER_SIZE) :
                 LET j == EchoPos[m * WRITE_BUFFER_SIZE] + 1
                 IN  j \in full
            /\ \A j \in full :
                 /\ j > 1 /\ trace[j - 1][1] = "echo"
                 /\ Count(SubSeq(trace, 1, j), "echo") % WRITE_BUFFER_SIZE = 0
            /\ Cardinality(part) <= 1
            /\ \A j \in part :
                 /\ pc = "done" /\ j = Max(W)
                 /\ trace[j - 1][1] = "cli_getc"
                 /\ trace[j - 1][2] = CliSymbolAsciiETX
                 /\ trace[j][2] = read_index % WRITE_BUFFER_SIZE
                 /\ trace[j][2] > 0
            /\ (pc = "done" /\ NoFault) => Appended = Consumed

\* C10 witness: a session of more than 512 symbols has been cancelled with a
\* remainder pending and every write succeeded.
C10_Witness ==
    /\ Running(V_write) /\ Opened /\ pc = "done" /\ NoFault
    /\ read_index > WRITE_BUFFER_SIZE
    /\ read_index % WRITE_BUFFER_SIZE > 0
    /\ Count(trace, "storage_file_write") = 2
    /\ Appended = Consumed

\* C3: read-in-chunks with chunk size n and a file of length L, every read
\* returning min(n, remaining) bytes.  The size header is printed; for n >= 1
\* the bytes printed are the file's bytes in order, read by ceil(L / n) reads
\* of n bytes, each directly preceded by one console handshake; for n = 0
\* there is no prompt, no handshake, no read and no data.
C3_ReadChunks ==
    (Running(V_read_chunks) /\ pc = "done" /\ Opened /\ NoFault) =>
        LET n == sscanf_lu(args).value
            L == Len(disk0)
            R == Positions(trace, "storage_file_read")
        IN  /\ Has(trace, "size", L)
            /\ IF n >= 1
               THEN /\ Emitted = disk0
                    /\ Cardinality(R) = (L + n - 1) \div n
                    /\ Count(trace, "cli_getc") = Cardinality(R)
                    /\ \A j \in R : /\ trace[j - 1][1] = "cli_getc"
                                    /\ trace[j][2] = n
               ELSE /\ Emitted = <<>>
                    /\ R = {}
                    /\ Count(trace, "cli_getc") = 0
                    /\ ~Has(trace, "text", "Ready?")

\* C3 witness: a 3-byte file has been read to its end in chunks of 2.
C3_Witness ==
    /\ Running(V_read_chunks) /\ pc = "done" /\ Opened /\ NoFault
    /\ sscanf_lu(args).value = 2 /\ Len(disk0) = 3
    /\ Count(trace, "storage_file_read") = 2
    /\ Emitted = disk0

\* C4: no handle outlives its handler.  Whenever a command has returned, no
\* file or directory handle is open, the storage record's open count is back
\* at its value before the command, every furi_record_open of the command
\* has its furi_record_close, and every successful open is followed by a
\* close.
C4_HandlesReleased ==
    /\ pc \in {"idle", "done", "rebooted"} => (handles = 0 /\ recOpen = 0)
    /\ pc = "done" =>
         /\ Count(trace, "furi_record_open") = Count(trace, "furi_record_close")
         /\ \A i \in 1..Len(trace) :
              (trace[i][1] \in OpenTags /\ trace[i][2] = FSE_OK)
                  => \E j \in (i + 1)..Len(trace) : trace[j][1] \in CloseTags

\* C4 witness: write_chunk has returned through its error report after a
\* successful open and a failed write.
C4_Witness ==
    /\ Running(V_write_chunk) /\ pc = "done" /\ Opened /\ ~NoFault
    /\ Count(trace, "error") = 1
    /\ handles = 0 /\ recOpen = 0

\* C5: in read_chunks and write_chunk a trailing argument that sscanf does
\* not convert (missing or not a number) gives the usage text and nothing
\* else: no storage_file_open, no console read, no storage error.
C5_BadSizeIsUsage ==
    ((Running(V_read_chunks) \/ Running(V_write_chunk)) /\ sscanf_lu(args).count # 1) =>
        /\ Count(trace, "storage_file_open") = 0
        /\ Count(trace, "cli_getc") = 0
        /\ Count(trace, "cli_read") = 0
        /\ Count(trace, "error") = 0
        /\ pc \in {"storage_cli_read_chunks", "storage_cli_write_chunk", "done"}
        /\ pc = "done" => Count(trace, "usage") = 1

\* C5 witness: write_chunk has returned on the argument "x".
C5_Witness ==
    /\ Running(V_write_chunk) /\ pc = "done" /\ args = <<"x">>
    /\ Count(trace, "usage") = 1

\* C6: write-one-chunk with requested size n > 0 prints a storage error
\* exactly when the count written differs from n, whatever the count read
\* from the console; the bytes written stay appended to the file.
C6_WriteChunkCheck ==
    (Running(V_write_chunk) /\ pc = "done" /\ Count(trace, "cli_read") = 1) =>
        LET n == sscanf_lu(args).value
            j == CHOOSE k \in Positions(trace, "storage_file_write") : TRUE
            r == trace[j][2]
            w == trace[j + 1][2]
        IN  /\ n > 0
            /\ Count(trace, "storage_file_write") = 1
            /\ Count(trace, "error") = (IF w # n THEN 1 ELSE 0)
            /\ Len(Appended) = w
            /\ \A i \in 1..w : Appended[i] = Byte(i)

\* C6 witness: the console returned fewer bytes than requested, all of them
\* were written, and the error was printed.
C6_Witness ==
    /\ Running(V_write_chunk) /\ pc = "done" /\ NoFault
    /\ Has(trace, "cli_read", 3) /\ Has(trace, "storage_file_write", 2)
    /\ Len(Appended) = 2
    /\ Count(trace, "error") = 1

\* C7: a line without a verb token, without a path token, or with a verb that
\* is none of the sixteen, gets the usage text and nothing else: no handler,
\* no storage call.
C7_UnknownVerb ==
    (command = "storage" /\ pc # "idle") =>
        LET r1 == args_read_string_and_trim(line)
            r2 == args_read_probably_quoted_string_and_trim(r1.rest)
        IN  (~r1.ok \/ ~r2.ok \/ r1.word \notin AllVerbs) =>
              /\ pc = "done"
              /\ Len(trace) = 1
              /\ trace[1][1] = "usage"

\* C7 witness: the line `foobar /ext` has been answered.
C7_Witness ==
    /\ command = "storage" /\ pc = "done"
    /\ line = <<"f", "o", "o", "b", "a", "r">> \o SP \o STORAGE_EXT_PATH_PREFIX
    /\ Len(trace) = 1 /\ trace[1][1] = "usage"

\* C8: the irreversible operations need the explicit confirmation.
\* storage_sd_format is called only by format on exactly the external prefix
\* after the one console character read was 'y' or 'Y'; the factory-reset flag
\* and the reboot only after the one character read was 'y' or 'Y'; with any
\* other answer no storage call is made and neither operation happens.
C8_Confirmation ==
    LET yes == {CHAR_y, CHAR_Y}
        irreversible == {"storage_sd_format", "furi_hal_rtc_set_flag", "power_reboot"}
    IN  /\ Count(trace, "storage_sd_format") > 0 =>
             /\ command = "storage" /\ cmd = V_format
             /\ path = STORAGE_EXT_PATH_PREFIX
             /\ Len(Delivered) = 1 /\ Delivered[1] \in yes
             /\ Min(Positions(trace, "cli_getc"))
                  < Min(Positions(trace, "storage_sd_format"))
        /\ (rtcFlag \/ rebooted \/ Count(trace, "furi_hal_rtc_set_flag") > 0
               \/ Count(trace, "power_reboot") > 0) =>
             /\ command = "factory_reset"
             /\ Len(Delivered) = 1 /\ Delivered[1] \in yes
             /\ Min(Positions(trace, "cli_getc"))
                  < Min(Positions(trace, "furi_hal_rtc_set_flag"))
        /\ ((command = "factory_reset" \/ (command = "storage" /\ cmd = V_format))
               /\ Len(Delivered) >= 1 /\ Delivered[1] \notin yes) =>
             /\ Tags(trace) \cap (StorageTags \cup irreversible) = {}
             /\ ~rtcFlag /\ ~rebooted

\* C8 witness: the card has been formatted after the answer 'Y'.
C8_Witness ==
    /\ command = "storage" /\ cmd = V_format /\ pc = "done"
    /\ Delivered = <<CHAR_Y>>
    /\ Has(trace, "storage_sd_format", FSE_OK)

\* C9: every storage call that failed during a command has its own error
\* reported by the handler ("Storage error: <description of that error>")
\* before the handler returns.
C9_ErrorsReported ==
    pc = "done" =>
        \A i \in Positions(trace, "fault") :
            \E j \in (i + 1)..Len(trace) :
                trace[j][1] = "error" /\ trace[j][2] = trace[i][2]

\* C11: migration collision policy.  After migrate has called the primitive,
\* every entry that was outside the source subtree is still there unchanged
\* (nothing is overwritten), whatever the primitive returned.  When it
\* returned OK and the source existed, the source is at the first name of
\* base, base_1, base_2, ... that was unused in the destination directory
\* (foo_2 when foo and foo_1 were there), every descendant is below that
\* place under its own name, none of these places was in use before, and
\* the source subtree is gone from its old place.
C11_MigrationPolicy ==
    (Running(V_migrate) /\ pc = "done" /\ Count(trace, "storage_common_migrate") = 1) =>
        LET src  == Components(path)
            dst  == Components(new_path.word)
            dir  == Parent(dst)
            base == Last(dst)
            sub  == {n \in tree0 : Under(src, n.at)}
            rest == tree0 \ sub
            ok   == Has(trace, "storage_common_migrate", FSE_OK)
        IN  /\ rest \subseteq tree
            /\ (ok /\ sub # {}) =>
                 \E k \in 0..Cardinality(tree0) :
                    LET land == Append(dir, Candidate(base, k))
                    IN  /\ \A j \in 0..(k - 1) :
                              Exists(tree0, Append(dir, Candidate(base, j)))
                        /\ \A n \in sub : ~Exists(tree0, Rebase(n.at, src, land))
                        /\ tree = rest \cup {[n EXCEPT !.at = Rebase(n.at, src, land)] :
                                                n \in sub}
                        /\ (Exists(tree0, Append(dir, N_foo))
                              /\ Exists(tree0, Append(dir, N_foo \o <<"_", "1">>))
                              /\ ~Exists(tree0, Append(dir, N_foo \o <<"_", "2">>))
                              /\ base = N_foo)
                             => land = Append(dir, N_foo \o <<"_", "2">>)

\* C11 witness: the directory foo has been migrated into a directory that
\* held foo and foo_1: its file s/b is at foo_2/s/b and the old foo/a of the
\* destination is untouched.
C11_Witness ==
    /\ Running(V_migrate) /\ pc = "done" /\ tree0 = T_dir
    /\ Has(trace, "storage_common_migrate", FSE_OK)
    /\ FileNode(<<N_ext, <<"d">>, N_foo \o <<"_", "2">>, <<"s">>, <<"b">>>>, 2) \in tree
    /\ FileNode(<<N_ext, <<"d">>, N_foo, <<"a">>>>, 3) \in tree
    /\ ~Exists(tree, <<N_ext, N_foo>>)

\* C12: copy, rename and migrate.  When no destination token can be read
\* from the trailing text, the handler prints the usage text, calls none of
\* the primitives, leaves the storage tree as it was and prints no storage
\* error.  When the token is read, the handler's primitive is called exactly
\* once, with the source path and then the destination path, and a storage
\* error is printed exactly when the primitive returned something other than
\* OK: that value.
C12_DestinationToken ==
    (InTwoPath /\ pc = "done") =>
        LET calls == {i \in 1..Len(trace) :
                         trace[i][1] \in {"storage_common_copy", "storage_common_rename",
                                          "storage_common_migrate"}}
        IN  IF ~new_path.ok
            THEN /\ Count(trace, "usage") = 1
                 /\ calls = {}
                 /\ tree = tree0
                 /\ Count(trace, "error") = 0
            ELSE /\ Count(trace, "usage") = 0
                 /\ Cardinality(calls) = 1
                 /\ \A j \in calls :
                      /\ trace[j][1] = PrimitiveOf(cmd)
                      /\ trace[j - 2] = Ev("path", path)
                      /\ trace[j - 1] = Ev("path", new_path.word)
                      /\ Count(trace, "error")
                           = (IF trace[j][2] = FSE_OK THEN 0 ELSE 1)
                      /\ trace[j][2] # FSE_OK => Has(trace, "error", trace[j][2])

\* C12 witness: rename without a destination has returned with the usage
\* text and the tree it found.
C12_Witness ==
    /\ InTwoPath /\ cmd = V_rename /\ pc = "done"
    /\ args = <<>> /\ path = P_file
    /\ Count(trace, "usage") = 1
    /\ tree0 = T_one /\ tree = T_one

\* C13: tree on the aggregate root "/".  The handler is entered once and
\* calls itself twice at depth one, never deeper; it makes exactly two walks,
\* the internal prefix first and the external prefix second, each opened
\* once; the first walk is over (its record closed) before the second
\* starts, so everything the first walk prints precedes everything the
\* second prints; the second walk is made whatever the first one met.
C13_RootWalks ==
    (Running(V_tree) /\ pc = "done" /\ PathToken = ROOT_PATH) =>
        LET opens  == Positions(trace, "dir_walk_open")
            closes == Positions(trace, "furi_record_close")
            starts == Positions(trace, "path")
        IN  /\ Vals(trace, "storage_cli_tree") = <<0, 1, 1>>
            /\ Vals(trace, "path")
                 = <<STORAGE_INT_PATH_PREFIX, STORAGE_EXT_PATH_PREFIX>>
            /\ Cardinality(opens) = 2 /\ Cardinality(closes) = 2
            /\ Min(starts) < Min(opens) /\ Min(opens) < Min(closes)
            /\ Min(closes) < Max(starts) /\ Max(starts) < Max(opens)
            /\ Max(opens) < Max(closes) /\ Max(closes) = Len(trace)
            /\ \A i \in {k \in 1..Len(trace) :
                          trace[k][1] \in {"entry", "text", "error"}} :
                 (Min(opens) < i /\ i < Min(closes)) \/ (Max(opens) < i)
            /\ Count(trace, "usage") = 0

\* C13 witness: on "/" the internal walk failed to open and the external
\* walk still ran and printed an entry.
C13_Witness ==
    /\ Running(V_tree) /\ pc = "done" /\ PathToken = ROOT_PATH
    /\ trace[Min(Positions(trace, "dir_walk_open"))][2] # FSE_OK
    /\ trace[Max(Positions(trace, "dir_walk_open"))][2] = FSE_OK
    /\ Count(trace, "entry") >= 1
    /\ Count(trace, "error") = 1

\* C14: tree on a path other than "/".  'Empty' is printed exactly when the
\* walk was opened and no dir_walk_read returned an entry; as many entries
\* are printed as reads returned one.  When the open fails, its error is
\* printed, no dir_walk_read is made, and neither an entry nor 'Empty' is
\* printed.
C14_EmptyOrError ==
    (Running(V_tree) /\ pc = "done" /\ PathToken # ROOT_PATH) =>
        LET opened  == Has(trace, "dir_walk_open", FSE_OK)
            yielded == Cardinality({i \in Positions(trace, "dir_walk_read") :
                                       trace[i][2] = "DirWalkOK"})
            empty   == Has(trace, "text", "Empty")
            o       == Min(Positions(trace, "dir_walk_open"))
        IN  /\ Count(trace, "dir_walk_open") = 1
            /\ empty <=> (opened /\ yielded = 0)
            /\ Count(trace, "entry") = yielded
            /\ Count(trace, "text") = (IF empty THEN 1 ELSE 0)
            /\ ~opened =>
                 /\ Count(trace, "dir_walk_read") = 0
                 /\ Count(trace, "entry") = 0
                 /\ ~empty
                 /\ Count(trace, "error") = 1
                 /\ trace[o + 2] = Ev("error", trace[o][2])
            /\ opened => Count(trace, "error") = 0

\* C14 witness: the walk of /ext was opened, its first read ended the
\* traversal, and 'Empty' was printed.
C14_Witness ==
    /\ Running(V_tree) /\ pc = "done" /\ PathToken = STORAGE_EXT_PATH_PREFIX
    /\ Has(trace, "dir_walk_open", FSE_OK)
    /\ Vals(trace, "dir_walk_read") = <<"DirWalkLast">>
    /\ Has(trace, "text", "Empty")
    /\ Count(trace, "entry") = 0

\* C15: sizes printed by tree, list and stat.  Every file entry the storage
\* service yields is printed with its exact size in bytes, for every value
\* of the 64-bit size; a directory is printed with the tag D and a file with
\* the tag F, one printed entry per entry yielded, so a directory holding
\* one file and one subdirectory gives exactly two printed entries.
C15_ExactSize ==
    pc = "done" =>
        \A i \in Positions(trace, "fileinfo") :
            LET en  == trace[i][2]
                out == trace[i + 1]
            IN  IF en.dir
                THEN \/ out = Ev("entry", <<"D", en.name>>)
                     \/ out = Ev("text", "Directory")
                ELSE /\ out[1] \in {"entry", "file_size"}
                     /\ out[1] = "entry" =>
                          /\ out[2][1] = "F" /\ out[2][2] = en.name
                          /\ en.size = U64Val(0, out[2][3])
                     /\ out[1] = "file_size" => en.size = U64Val(0, out[2])

\* C16: order of events in read-in-chunks.  The size header comes before
\* any handshake; every storage read comes directly after one cli_getc and
\* every cli_getc is directly followed by its read, so handshakes and reads
\* pair up (one handshake is ahead only while its read is being made); no
\* data byte comes before the first handshake; the bytes of a chunk come
\* right after its read, before the next handshake.
C16_ChunkOrdering ==
    Running(V_read_chunks) =>
        LET G == Positions(trace, "cli_getc")
            R == Positions(trace, "storage_file_read")
            S == Positions(trace, "size")
            D == Positions(trace, "data")
        IN  /\ G # {} => (S # {} /\ Max(S) < Min(G))
            /\ \A j \in R : trace[j - 1][1] = "cli_getc"
            /\ \A g \in G : IF g = Len(trace) THEN pc = "read_chunks_read"
                            ELSE trace[g + 1][1] = "storage_file_read"
            /\ Cardinality(G)
                 = Cardinality(R) + (IF pc = "read_chunks_read" THEN 1 ELSE 0)
            /\ \A d \in D : G # {} /\ Min(G) < d
            /\ \A j \in R :
                 LET nxt == Min({g \in G : g > j} \cup {Len(trace) + 1})
                 IN  Cardinality({d \in D : j < d /\ d < nxt}) = trace[j + 1][2]
            /\ Cardinality(D) = fpos
            /\ \A d \in D :
                 Cardinality({g \in G : g < d}) = Cardinality({j \in R : j < d})

\* C16 witness: the first chunk of two bytes has been printed and the second
\* handshake has been taken; its read is still to come.
C16_Witness ==
    /\ Running(V_read_chunks) /\ pc = "read_chunks_read"
    /\ Count(trace, "cli_getc") = 2
    /\ Count(trace, "storage_file_read") = 1
    /\ Count(trace, "data") = 2
    /\ trace[Len(trace)][1] = "cli_getc"

\* C17: read-in-chunks with a chunk size of at least one terminates: once the
\* loop is entered the handler returns, whatever the storage reads return,
\* as long as every handshake is supplied; the remaining-byte counter never
\* goes below zero.
C17_Terminates ==
    /\ (Running(V_read_chunks) /\ pc = "read_chunks_loop") ~> (pc = "done")
    /\ [](file_size >= 0)

\* C18: dispatch.  A line whose two tokens parse gets either the
\* dispatcher's usage text and no handler, or one handler and no usage text
\* from the dispatcher, never two handlers.  The verb is compared for exact
\* equality with info, format, list, tree, read, read_chunks, write,
\* write_chunk, copy, remove, rename, migrate, mkdir, md5, stat, timestamp
\* in this order; the handler of the first equal entry is entered once and
\* the session stays within that handler until it returns; a verb that is
\* only a prefix or an extension of an entry reaches no handler.
C18_OneHandler ==
    (command = "storage" /\ pc # "idle") =>
        LET r1 == args_read_string_and_trim(line)
            r2 == args_read_probably_quoted_string_and_trim(r1.rest)
            hit == {i \in 1..Len(VerbTable) : VerbTable[i][1] = r1.word}
        IN  (r1.ok /\ r2.ok) =>
              /\ [i \in 1..Len(VerbTable) |-> VerbTable[i][1]]
                   = <<V_info, V_format, V_list, V_tree, V_read, V_read_chunks,
                       V_write, V_write_chunk, V_copy, V_remove, V_rename,
                       V_migrate, V_mkdir, V_md5, V_stat, V_timestamp>>
              /\ IF hit = {}
                 THEN /\ pc = "done"
                      /\ Len(trace) = 1 /\ trace[1][1] = "usage"
                 ELSE /\ Count(trace, "handler") = 1
                      /\ trace[1] = Ev("handler", VerbTable[Min(hit)][2])
                      /\ pc \in HandlerPcs(VerbTable[Min(hit)][2])

\* C18 witness: the line `read_chunks /ext/f 2` is inside the loop of the
\* read_chunks handler.
C18_Witness ==
    /\ command = "storage" /\ pc = "read_chunks_loop"
    /\ line = V_read_chunks \o SP \o P_file \o SP \o <<"2">>
    /\ trace[1] = Ev("handler", "storage_cli_read_chunks")
    /\ Count(trace, "handler") = 1

C20_FlushFailure ==
    (Running(V_write) /\ Opened) =>
        LET W == Positions(trace, "storage_file_write")
            G == Positions(trace, "cli_getc")
            failed(j) == trace[j + 1][2] # trace[j][2]
            ends(j) == /\ pc = "done" /\ j = Max(W)
                       /\ \A g \in G : g < j
        IN  /\ \A j \in W :
                 /\ failed(j) => trace[j + 3][1] = "error"
                 /\ trace[j - 1][1] = "cli_getc" =>
                      (trace[j - 1][2] = CliSymbolAsciiETX /\ ends(j))
                 /\ trace[j - 1][1] = "echo" =>
                      IF failed(j) THEN ends(j)
                      ELSE \/ (j + 1 = Len(trace) /\ pc = "write_loop")
                           \/ (j + 1 < Len(trace) /\ trace[j + 2][1] = "cli_getc")
                 /\ trace[j - 1][1] \in {"cli_getc", "echo"}
            /\ Count(trace, "error") = Cardinality({j \in W : failed(j)})

\* C20 witness: the flush of the full buffer wrote 511 of 512 bytes; the
\* error was reported and the session ended with 512 symbols read.
C20_Witness ==
    /\ Running(V_write) /\ Opened /\ pc = "done"
    /\ read_index = WRITE_BUFFER_SIZE
    /\ Count(trace, "cli_getc") = WRITE_BUFFER_SIZE
    /\ Has(trace, "ret", WRITE_BUFFER_SIZE - 1)
    /\ Count(trace, "error") = 1
    /\ Count(trace, "storage_file_write") = 1

\* C21: in write-one-chunk the bounded console read happens at most once and
\* only after a successful open for append followed by "Ready"; the storage
\* write happens at most once, after that console read, and is handed exactly
\* the bytes the console returned; a failed open is reported with no console
\* read and no write; with a parsed size of zero the opened file is closed
\* with no console read, no write and no error reported.
C21_WriteChunkOrdering ==
    Running(V_write_chunk) =>
        LET R == Positions(trace, "cli_read")
            W == Positions(trace, "storage_file_write")
            O == Positions(trace, "storage_file_open")
            ready(t) == trace[t][1] = "text" /\ trace[t][2] = "Ready"
            p == sscanf_lu(args)
        IN  /\ Cardinality(R) <= 1 /\ Cardinality(W) <= 1 /\ Cardinality(O) <= 1
            /\ \A r \in R : \E o \in O :
                 /\ o < r /\ trace[o][2] = FSE_OK
                 /\ \E t \in (o + 1)..(r - 1) : ready(t)
                 /\ trace[r][2] = p.value
            /\ \A w \in W : \E r \in R :
                 /\ r < w
                 /\ trace[w][2] = trace[r + 1][2]
                 /\ trace[w + 1][2] <= trace[w][2]
                 /\ Len(Appended) = trace[w + 1][2]
                 /\ \A i \in 1..trace[r + 1][2] : buffer[i - 1] = Byte(i)
                 /\ Appended = Chunk(buffer, trace[w + 1][2])
            /\ pc = "done" => Cardinality(W) = Cardinality(R)
            /\ (\E o \in O : trace[o][2] # FSE_OK) =>
                 /\ R = {} /\ W = {} /\ Appended = <<>>
                 /\ Count(trace, "error") = 1
                 /\ \A o \in O : trace[o + 2][1] = "error"
            /\ (Opened /\ p.value = 0) =>
                 /\ R = {} /\ W = {} /\ Appended = <<>>
                 /\ Count(trace, "error") = 0
                 /\ Count(trace, "storage_file_close") = 1
                 /\ pc = "done"

\* C21 witness: after "Ready" the console returned 2 of the 3 bytes asked
\* for, the single write was handed those 2 bytes and stored 1 of them.
C21_Witness ==
    /\ Running(V_write_chunk) /\ pc = "done" /\ Opened
    /\ Has(trace, "cli_read", 3)
    /\ Has(trace, "storage_file_write", 2)
    /\ Appended = <<Byte(1)>>
    /\ Count(trace, "cli_read") = 1 /\ Count(trace, "storage_file_write") = 1

====
